---------------------------- MODULE Spec2Model ----------------------------
(***************************************************************************)
(* A model of the find-words library (src/src/lib.rs) and of its command   *)
(* line entry point (src/src/bin/find_words.rs).                           *)
(*                                                                         *)
(* Characters are their code points (97 is 'a', 65 is 'A', 10 is LF, 13 is *)
(* CR), strings are sequences of characters, and a HashMap<char, u8> is a  *)
(* function whose DOMAIN is the set of keys it holds.                      *)
(*                                                                         *)
(* The module holds one specification per operation of the library:        *)
(*   SpecCount   get_letters_count, one fold iteration per step            *)
(*   SpecNoise   get_letters_count on whole (short) strings                *)
(*   SpecPred    can_be_constructed on caller-supplied maps                *)
(*   SpecFilter  get_constructable_words, the parallel filter and collect  *)
(*   SpecRead    read_words_from_file                                      *)
(*   SpecRand    generate_random_string                                    *)
(*   SpecMain    main of the find_words binary                             *)
(***************************************************************************)
EXTENDS Integers, Sequences, FiniteSets, TLC

VARIABLES
    \* get_letters_count, stepwise (SpecCount)
    lc_checks,      \* TRUE when the build has overflow checks (debug profile)
    lc_map,         \* the fold's accumulator, HashMap<char, u8>
    lc_scanned,     \* number of alphabetic characters the fold has been given
    lc_pc,          \* "idle", "scan", "returned" or "panicked"
    \* get_letters_count on whole strings (SpecNoise)
    nz_orig,        \* the string s the run started from
    nz_cur,         \* s after the edits made so far
    nz_first,       \* the map returned by get_letters_count(s)
    nz_out,         \* the map returned by the last call, on nz_cur
    \* can_be_constructed (SpecPred)
    pd_word,        \* the word map handed to the call
    pd_list,        \* the map of the list of letters handed to the call
    pd_pc,          \* "idle", "call" or "done"
    pd_result,      \* the bool returned
    \* read_words_from_file (SpecRead, SpecMain)
    rd_openable,    \* TRUE when File::open succeeds
    rd_content,     \* the bytes of the file
    rd_pos,         \* number of bytes the BufReader has handed out
    rd_words,       \* the local vector `words`
    rd_pc,          \* "idle", "open", "lines" or "done"
    rd_result,      \* the Result returned
    \* get_constructable_words (SpecFilter, SpecMain)
    fl_words,       \* the vector of Words handed to the call
    fl_list,        \* the map of the list of letters handed to the call
    fl_jobs,        \* the jobs of the parallel iterator, by index range
    fl_pc,          \* "idle", "run" or "done"
    fl_result,      \* the vector returned
    \* generate_random_string (SpecRand)
    rs_arg,         \* the argument `length`, an Option<u8>
    rs_length,      \* the local `length` after unwrap_or_else
    rs_taken,       \* number of characters taken from the iterator so far
    rs_lower,       \* how many of them are lowercase letters a..z
    rs_pc,          \* "idle", "length", "take" or "done"
    \* main of the find_words binary (SpecMain)
    mn_pc,          \* "idle", "read", "generate", "pool", "header",
                    \* "filter", "words" or "exit"
    mn_list,        \* the local `list`
    mn_stdout,      \* the lines printed so far
    mn_exit         \* "running", or the exit status: "success" or "failure"

countVars == <<lc_checks, lc_map, lc_scanned, lc_pc>>
noiseVars == <<nz_orig, nz_cur, nz_first, nz_out>>
predVars == <<pd_word, pd_list, pd_pc, pd_result>>
readVars == <<rd_openable, rd_content, rd_pos, rd_words, rd_pc, rd_result>>
filterVars == <<fl_words, fl_list, fl_jobs, fl_pc, fl_result>>
randVars == <<rs_arg, rs_length, rs_taken, rs_lower, rs_pc>>
mainVars == <<mn_pc, mn_list, mn_stdout, mn_exit>>

vars == <<countVars, noiseVars, predVars, readVars, filterVars, randVars,
          mainVars>>

\* the variables an operation leaves alone
notCount == <<noiseVars, predVars, readVars, filterVars, randVars, mainVars>>
notNoise == <<countVars, predVars, readVars, filterVars, randVars, mainVars>>
notPred == <<countVars, noiseVars, readVars, filterVars, randVars, mainVars>>
notRead == <<countVars, noiseVars, predVars, filterVars, randVars, mainVars>>
notFilter == <<countVars, noiseVars, predVars, readVars, randVars, mainVars>>
notRand == <<countVars, noiseVars, predVars, readVars, filterVars, mainVars>>
notMain == <<countVars, noiseVars, predVars, randVars>>

---------------------------------------------------------------------------
(* Bounds of the model.                                                    *)

\* most alphabetic characters one modelled input of SpecCount holds
MaxLetters == 257

\* longest string a run of SpecNoise starts from
MaxStrLen == 3

\* most characters a run of SpecNoise inserts into its string
MaxNoise == 1

\* largest count in the maps SpecPred hands to can_be_constructed
MaxCount == 2

\* most bytes a file of SpecRead and SpecMain holds
MaxFileLen == 4

\* most words a vector of SpecFilter holds
MaxWords == 3

---------------------------------------------------------------------------
(* Characters and maps.                                                    *)

\* number of values of the u8 count type of Word.letters
U8Modulus == 256

\* char::is_ascii_uppercase
IsAsciiUppercase(c) == c >= 65 /\ c <= 90

\* char::is_ascii_lowercase
IsAsciiLowercase(c) == c >= 97 /\ c <= 122

\* char::is_ascii_alphabetic, the filter of get_letters_count
IsAsciiAlphabetic(c) == IsAsciiUppercase(c) \/ IsAsciiLowercase(c)

\* what str::to_ascii_lowercase does to one character
ToAsciiLowercaseChar(c) == IF IsAsciiUppercase(c) THEN c + 32 ELSE c

\* str::to_ascii_lowercase
ToAsciiLowercase(s) == [i \in 1..Len(s) |-> ToAsciiLowercaseChar(s[i])]

\* HashMap::new()
EmptyMap == << >>

\* map.entry(c).or_insert(0)
OrInsertZero(map, c) == IF c \in DOMAIN map THEN map ELSE map @@ (c :> 0)

\* the u8 addition of `*count += 1` when it overflows: the checked build
\* panics, the unchecked build wraps
AddOverflows(count) == count + 1 >= U8Modulus

\* `*count += 1` in a build without overflow checks
AddOne(count) == (count + 1) % U8Modulus

\* the closure of the fold: one retained character is counted
FoldStep(map, c) ==
    LET m == OrInsertZero(map, c)
    IN  [m EXCEPT ![c] = AddOne(m[c])]

\* the fold of get_letters_count over the retained characters
RECURSIVE FoldChars(_, _)
FoldChars(map, s) ==
    IF s = << >> THEN map ELSE FoldChars(FoldStep(map, Head(s)), Tail(s))

\* a faulty variant of get_letters_count: the case fold is left out
GetLettersCountNoCaseFold(word) ==
    FoldChars(EmptyMap, SelectSeq(word, IsAsciiAlphabetic))

\* get_letters_count on a whole string. The counts wrap as in a build without
\* overflow checks; the two builds differ only once a letter has occurred 256
\* times, which SpecCount covers.
get_letters_count(word) ==
    FoldChars(EmptyMap, SelectSeq(ToAsciiLowercase(word), IsAsciiAlphabetic))

\* a faulty variant of can_be_constructed: the list must hold strictly more
CanBeConstructedStrict(word, list) ==
    IF DOMAIN word = {} THEN FALSE
    ELSE \A letter \in DOMAIN word :
            letter \in DOMAIN list /\ list[letter] > word[letter]

\* a faulty variant of can_be_constructed: any entry of the list satisfies
\* the letter
CanBeConstructedAnyCount(word, list) ==
    IF DOMAIN word = {} THEN FALSE
    ELSE \A letter \in DOMAIN word : letter \in DOMAIN list

\* can_be_constructed: `list.get(letter)` is Some(n) with n >= letter_count
can_be_constructed(word, list) ==
    IF DOMAIN word = {} THEN FALSE
    ELSE \A letter \in DOMAIN word :
            letter \in DOMAIN list /\ list[letter] >= word[letter]

\* the sum of the counts of a map
RECURSIVE SumCounts(_)
SumCounts(map) ==
    IF DOMAIN map = {} THEN 0
    ELSE LET c == CHOOSE k \in DOMAIN map : TRUE
         IN  map[c] + SumCounts([k \in DOMAIN map \ {c} |-> map[k]])

\* the strings over the characters of `chars` of at most n characters
StringsUpTo(chars, n) == UNION {[1..k -> chars] : k \in 0..n}

---------------------------------------------------------------------------
(* The variables of an operation that a specification does not run keep    *)
(* these values.                                                           *)

CountIdle ==
    /\ lc_checks = FALSE
    /\ lc_map = EmptyMap
    /\ lc_scanned = 0
    /\ lc_pc = "idle"

NoiseIdle ==
    /\ nz_orig = << >>
    /\ nz_cur = << >>
    /\ nz_first = EmptyMap
    /\ nz_out = EmptyMap

PredIdle ==
    /\ pd_word = EmptyMap
    /\ pd_list = EmptyMap
    /\ pd_pc = "idle"
    /\ pd_result = FALSE

ReadIdle ==
    /\ rd_openable = FALSE
    /\ rd_content = << >>
    /\ rd_pos = 0
    /\ rd_words = << >>
    /\ rd_pc = "idle"
    /\ rd_result = [kind |-> "None", words |-> << >>]

FilterIdle ==
    /\ fl_words = << >>
    /\ fl_list = EmptyMap
    /\ fl_jobs = {}
    /\ fl_pc = "idle"
    /\ fl_result = << >>

RandIdle ==
    /\ rs_arg = [some |-> FALSE, n |-> 0]
    /\ rs_length = 0
    /\ rs_taken = 0
    /\ rs_lower = 0
    /\ rs_pc = "idle"

MainIdle ==
    /\ mn_pc = "idle"
    /\ mn_list = << >>
    /\ mn_stdout = << >>
    /\ mn_exit = "running"

---------------------------------------------------------------------------
(* SpecCount: get_letters_count as the fold it is, one character a step.   *)
(* The input is not stored: each step draws the next character of the      *)
(* input, and lc_scanned counts the alphabetic ones drawn so far.          *)

\* the characters an input of SpecCount is drawn from:
\* 'a', 'b', 'A', '1', ' ', ',' and the non-ASCII letter e-acute
CountChars == {97, 98, 65, 49, 32, 44, 233}

CountInit ==
    /\ lc_checks \in BOOLEAN
    /\ lc_map = EmptyMap
    /\ lc_scanned = 0
    /\ lc_pc = "scan"
    /\ NoiseIdle /\ PredIdle /\ ReadIdle /\ FilterIdle /\ RandIdle /\ MainIdle

\* the filter rejects the character: the fold does not see it
ScanSkip(ch) ==
    /\ lc_pc = "scan"
    /\ ~IsAsciiAlphabetic(ToAsciiLowercaseChar(ch))
    /\ UNCHANGED vars

\* the filter keeps the character and the fold counts it
ScanCount(ch) ==
    LET c == ToAsciiLowercaseChar(ch)
        m == OrInsertZero(lc_map, c)
    IN  /\ lc_pc = "scan"
        /\ lc_scanned < MaxLetters
        /\ IsAsciiAlphabetic(c)
        /\ lc_scanned' = lc_scanned + 1
        /\ IF lc_checks /\ AddOverflows(m[c])
             THEN /\ lc_pc' = "panicked"
                  /\ lc_map' = m
             ELSE /\ lc_pc' = "scan"
                  /\ lc_map' = FoldStep(lc_map, c)
        /\ UNCHANGED <<lc_checks, notCount>>

\* the input is exhausted: the fold's accumulator is returned
ScanReturn ==
    /\ lc_pc = "scan"
    /\ lc_pc' = "returned"
    /\ UNCHANGED <<lc_checks, lc_map, lc_scanned, notCount>>

CountNext ==
    \/ \E ch \in CountChars : ScanSkip(ch)
    \/ \E ch \in CountChars : ScanCount(ch)
    \/ ScanReturn

SpecCount == CountInit /\ [][CountNext]_vars

\* C3 as stated: every count of a returned map is at least 1 and the counts
\* sum to the number of alphabetic characters scanned, whatever the input,
\* also when a letter occurs more than 255 times.
FrequencyMapInvariant ==
    lc_pc = "returned" =>
        /\ \A c \in DOMAIN lc_map : lc_map[c] >= 1
        /\ SumCounts(lc_map) = lc_scanned

\* C4 as stated: get_letters_count never aborts, whatever the input, and an
\* input without alphabetic characters returns the empty map.
CountIsTotal ==
    /\ lc_pc # "panicked"
    /\ (lc_pc = "returned" /\ lc_scanned = 0) => lc_map = EmptyMap

---------------------------------------------------------------------------
(* SpecNoise: get_letters_count called on a string s, and again after s is *)
(* lowercased or has a digit, a punctuation mark or a blank inserted.      *)

\* the characters s is drawn from: 'a', 'A', 'b', '1', ' ' and the non-ASCII
\* letter E-acute
NoiseAlphabet == {97, 65, 98, 49, 32, 201}

\* the characters inserted: '1', ' ' and ','
NoiseChars == {49, 32, 44}

\* lowercase(s) of the claim, on the Latin-1 characters: A..Z and the
\* accented capitals are moved to their small letters
LowercaseChar(c) ==
    IF IsAsciiUppercase(c) \/ (c >= 192 /\ c <= 222 /\ c # 215)
    THEN c + 32 ELSE c

Lowercase(s) == [i \in 1..Len(s) |-> LowercaseChar(s[i])]

\* s with character n inserted after its first i characters
Insert(s, i, n) == SubSeq(s, 1, i) \o <<n>> \o SubSeq(s, i + 1, Len(s))

NoiseInit ==
    /\ nz_orig \in StringsUpTo(NoiseAlphabet, MaxStrLen)
    /\ nz_cur = nz_orig
    /\ nz_first = get_letters_count(nz_orig)
    /\ nz_out = get_letters_count(nz_orig)
    /\ CountIdle /\ PredIdle /\ ReadIdle /\ FilterIdle /\ RandIdle /\ MainIdle

\* a noise character is inserted and the string is counted again
InsertNoise ==
    /\ Len(nz_cur) < Len(nz_orig) + MaxNoise
    /\ \E i \in 0..Len(nz_cur), n \in NoiseChars :
          /\ nz_cur' = Insert(nz_cur, i, n)
          /\ nz_out' = get_letters_count(Insert(nz_cur, i, n))
    /\ UNCHANGED <<nz_orig, nz_first, notNoise>>

\* the string is lowercased and counted again
MakeLowercase ==
    /\ nz_cur # Lowercase(nz_cur)
    /\ nz_cur' = Lowercase(nz_cur)
    /\ nz_out' = get_letters_count(Lowercase(nz_cur))
    /\ UNCHANGED <<nz_orig, nz_first, notNoise>>

NoiseNext == InsertNoise \/ MakeLowercase

SpecNoise == NoiseInit /\ [][NoiseNext]_vars

---------------------------------------------------------------------------
(* SpecPred: can_be_constructed on the maps a caller can hand to it.       *)
(* Word.letters is a public field and the list is a parameter of the       *)
(* public get_constructable_words, so both maps are any HashMap<char, u8>, *)
(* entries with count 0 included.                                          *)

\* the keys of the modelled maps: 'a' and 'b'
PredChars == {97, 98}

PredMaps == UNION {[D -> 0..MaxCount] : D \in SUBSET PredChars}

PredInit ==
    /\ pd_word \in PredMaps
    /\ pd_list \in PredMaps
    /\ pd_pc = "call"
    /\ pd_result = FALSE
    /\ CountIdle /\ NoiseIdle /\ ReadIdle /\ FilterIdle /\ RandIdle /\ MainIdle

PredCall ==
    /\ pd_pc = "call"
    /\ pd_result' = can_be_constructed(pd_word, pd_list)
    /\ pd_pc' = "done"
    /\ UNCHANGED <<pd_word, pd_list, notPred>>

PredNext == PredCall

SpecPred == PredInit /\ [][PredNext]_vars

\* the count of c in a map, a missing entry read as 0
CountOrZero(map, c) == IF c \in DOMAIN map THEN map[c] ELSE 0

\* a map without its entries of count 0
StripZeros(map) == [c \in {k \in DOMAIN map : map[k] # 0} |-> map[c]]

\* C1 as stated: the result is true iff W is non-empty and P[c] >= W[c] for
\* every character c of W, a character missing from P read as count 0.
DominanceLawMissingAsZero ==
    pd_pc = "done" =>
        pd_result = (/\ DOMAIN pd_word # {}
                     /\ \A c \in DOMAIN pd_word :
                           CountOrZero(pd_list, c) >= pd_word[c])

\* C1 amended: the result is true iff W is non-empty and every character c
\* of W is a key of P with P[c] >= W[c]; a character missing from P fails
\* the word even when W[c] is 0. An empty W gives false for every pool.
DominanceLaw ==
    pd_pc = "done" =>
        /\ pd_result = (/\ DOMAIN pd_word # {}
                        /\ \A c \in DOMAIN pd_word :
                              /\ CountOrZero(pd_list, c) >= pd_word[c]
                              /\ c \in DOMAIN pd_list)
        /\ DOMAIN pd_word = {} => ~pd_result

\* a word of two letters found constructible, and an empty word refused
\* against a non-empty pool
DominanceWitness ==
    /\ pd_pc = "done"
    /\ pd_result
    /\ DOMAIN pd_word = PredChars
    /\ pd_word[97] = 2
    /\ pd_list[98] > pd_word[98]

\* C10 as stated: the result is the same whether a character is absent from
\* a map or present in it with count 0, in the word map and in the pool map.
ZeroEntryIsAbsence ==
    pd_pc = "done" =>
        /\ pd_result = can_be_constructed(StripZeros(pd_word), pd_list)
        /\ pd_result = can_be_constructed(pd_word, StripZeros(pd_list))

\* C10 amended: when every count of the word map is at least 1, the result
\* is the same whether a character is absent from the pool map or present in
\* it with count 0; an entry of the word map, of count 0 or not, makes the
\* map non-empty and must be a key of the pool map for the word to pass.
ZeroPoolEntryIsAbsence ==
    /\ (pd_pc = "done" /\ \A c \in DOMAIN pd_word : pd_word[c] >= 1) =>
          pd_result = can_be_constructed(pd_word, StripZeros(pd_list))
    /\ (pd_pc = "done" /\ pd_result) =>
          (DOMAIN pd_word # {} /\ DOMAIN pd_word \subseteq DOMAIN pd_list)

\* a word that needs a letter the pool holds with count 0
ZeroPoolEntryWitness ==
    /\ pd_pc = "done"
    /\ DOMAIN pd_word = PredChars
    /\ \A c \in DOMAIN pd_word : pd_word[c] >= 1
    /\ DOMAIN pd_list = PredChars
    /\ pd_list[97] = 0
    /\ pd_list[98] >= pd_word[98]
    /\ ~pd_result

---------------------------------------------------------------------------
(* SpecRead: read_words_from_file. The file is the bytes it holds; the      *)
(* Lines iterator of the BufReader cuts them at LF, takes the terminator    *)
(* (LF, or CR LF) off each line and fails on a line that is not valid       *)
(* UTF-8.                                                                   *)

\* the bytes a file is made of: 'a', 'B', ' ', CR, LF and 0xFF, a byte no
\* UTF-8 text holds
ReadChars == {97, 66, 32, 13, 10, 255}

\* the position of the end of the line that starts after `pos`: its LF, or
\* the end of the file
LineEnd(content, pos) ==
    LET lfs == {i \in (pos + 1)..Len(content) : content[i] = 10}
    IN  IF lfs = {} THEN Len(content)
        ELSE CHOOSE i \in lfs : \A j \in lfs : i <= j

\* the bytes read_line appends for that line, the LF included
RawLine(content, pos) == SubSeq(content, pos + 1, LineEnd(content, pos))

\* the bytes are UTF-8 text
IsValidText(bytes) == \A i \in 1..Len(bytes) : bytes[i] # 255

\* Lines::next: a final LF is popped, and after it a final CR
StripTerminator(raw) ==
    IF raw # << >> /\ raw[Len(raw)] = 10
    THEN LET cut == SubSeq(raw, 1, Len(raw) - 1)
         IN  IF cut # << >> /\ cut[Len(cut)] = 13
             THEN SubSeq(cut, 1, Len(cut) - 1)
             ELSE cut
    ELSE raw

\* str::trim on the modelled characters: leading and trailing blanks go
RECURSIVE TrimBlanks(_)
TrimBlanks(s) ==
    IF s = << >> THEN s
    ELSE IF Head(s) \in {32, 13} THEN TrimBlanks(Tail(s))
    ELSE IF s[Len(s)] \in {32, 13} THEN TrimBlanks(SubSeq(s, 1, Len(s) - 1))
    ELSE s

\* a faulty variant of MakeWord: the line is trimmed before it is stored
MakeWordTrimmed(value) ==
    [value |-> TrimBlanks(value), letters |-> get_letters_count(value)]

\* Word { value, letters } with letters = get_letters_count(&value)
MakeWord(value) == [value |-> value, letters |-> get_letters_count(value)]

\* Ok(words)
OkResult(words) == [kind |-> "Ok", words |-> words]

\* a faulty variant of OnLineError: the loop stops at the line that cannot be read
\* and the words read so far are returned
OnLineErrorSwallowed(words) == OkResult(words)

\* `line?` on an Err: the function returns the error, `words` is dropped
OnLineError(words) == [kind |-> "Err", words |-> << >>]

\* `File::open(file)?` on an Err
OnOpenError == [kind |-> "Err", words |-> << >>]

ReadStart ==
    /\ rd_openable \in BOOLEAN
    /\ rd_content \in StringsUpTo(ReadChars, MaxFileLen)
    /\ ~rd_openable => rd_content = << >>
    /\ rd_pos = 0
    /\ rd_words = << >>
    /\ rd_pc = "open"
    /\ rd_result = [kind |-> "None", words |-> << >>]

ReadInit ==
    /\ ReadStart
    /\ CountIdle /\ NoiseIdle /\ PredIdle /\ FilterIdle /\ RandIdle /\ MainIdle

\* File::open fails
ReadOpenFail ==
    /\ rd_pc = "open"
    /\ ~rd_openable
    /\ rd_result' = OnOpenError
    /\ rd_pc' = "done"
    /\ UNCHANGED <<rd_openable, rd_content, rd_pos, rd_words, notRead>>

\* File::open succeeds
ReadOpen ==
    /\ rd_pc = "open"
    /\ rd_openable
    /\ rd_pc' = "lines"
    /\ UNCHANGED <<rd_openable, rd_content, rd_pos, rd_words, rd_result,
                   notRead>>

\* one iteration of the loop on a line that is read
ReadLine ==
    /\ rd_pc = "lines"
    /\ rd_pos < Len(rd_content)
    /\ IsValidText(RawLine(rd_content, rd_pos))
    /\ rd_words' = Append(rd_words,
                          MakeWord(StripTerminator(RawLine(rd_content, rd_pos))))
    /\ rd_pos' = LineEnd(rd_content, rd_pos)
    /\ UNCHANGED <<rd_openable, rd_content, rd_pc, rd_result, notRead>>

\* one iteration of the loop on a line that cannot be read as text
ReadLineFail ==
    /\ rd_pc = "lines"
    /\ rd_pos < Len(rd_content)
    /\ ~IsValidText(RawLine(rd_content, rd_pos))
    /\ rd_result' = OnLineError(rd_words)
    /\ rd_pc' = "done"
    /\ UNCHANGED <<rd_openable, rd_content, rd_pos, rd_words, notRead>>

\* the iterator is exhausted
ReadReturn ==
    /\ rd_pc = "lines"
    /\ rd_pos = Len(rd_content)
    /\ rd_result' = OkResult(rd_words)
    /\ rd_pc' = "done"
    /\ UNCHANGED <<rd_openable, rd_content, rd_pos, rd_words, notRead>>

ReadNext ==
    \/ ReadOpenFail
    \/ ReadOpen
    \/ ReadLine
    \/ ReadLineFail
    \/ ReadReturn

SpecRead == ReadInit /\ [][ReadNext]_vars

\* the number of lines of a text: its LFs, and one more for a last line
\* without LF
NumLines(content) ==
    Cardinality({i \in 1..Len(content) : content[i] = 10})
    + (IF content # << >> /\ content[Len(content)] # 10 THEN 1 ELSE 0)

\* the text with every line terminated by one LF: a CR before an LF is
\* dropped, and a last line without LF is given one
RECURSIVE LfTerminated(_)
LfTerminated(content) ==
    IF content = << >> THEN << >>
    ELSE IF Len(content) = 1
         THEN IF content[1] = 10 THEN content ELSE content \o <<10>>
    ELSE IF content[1] = 13 /\ content[2] = 10
         THEN LfTerminated(Tail(content))
    ELSE <<content[1]>> \o LfTerminated(Tail(content))

\* the values of the words, each followed by LF
RECURSIVE ValuesAsLines(_)
ValuesAsLines(words) ==
    IF words = << >> THEN << >>
    ELSE Head(words).value \o <<10>> \o ValuesAsLines(Tail(words))

\* C6: on a readable file the result is Ok with one Word per line, in line
\* order, whose value is the text of the line (without its terminator, and
\* with its leading and trailing blanks) and whose letters are
\* get_letters_count of the value; a blank line gives a Word too.
ReadGivesOneWordPerLine ==
    (rd_pc = "done" /\ rd_openable /\ IsValidText(rd_content)) =>
        /\ rd_result.kind = "Ok"
        /\ Len(rd_result.words) = NumLines(rd_content)
        /\ ValuesAsLines(rd_result.words) = LfTerminated(rd_content)
        /\ \A i \in 1..Len(rd_result.words) :
              /\ \A j \in 1..Len(rd_result.words[i].value) :
                    rd_result.words[i].value[j] # 10
              /\ rd_result.words[i].letters
                    = get_letters_count(rd_result.words[i].value)

\* a file of a blank line and of a line with a letter between blanks
ReadWitness ==
    /\ rd_pc = "done"
    /\ rd_result.kind = "Ok"
    /\ Len(rd_result.words) = 2
    /\ rd_result.words[1].value = << >>
    /\ rd_result.words[2].value = <<32, 97, 32>>
    /\ rd_result.words[2].letters = (97 :> 1)

\* C7: when the file cannot be opened, or a line of it (the first or a
\* later one) is not valid text, the call returns Err and no Words.
ReadFailureIsErr ==
    (rd_pc = "done" /\ (~rd_openable \/ ~IsValidText(rd_content))) =>
        /\ rd_result.kind = "Err"
        /\ rd_result.words = << >>

\* a later line fails after earlier lines were read
ReadFailureWitness ==
    /\ rd_pc = "done"
    /\ rd_openable
    /\ Len(rd_words) >= 1
    /\ rd_result.kind = "Err"

---------------------------------------------------------------------------
(* SpecFilter: get_constructable_words. into_par_iter() on the vector is a  *)
(* producer over its index range; the bridge of the parallel iterator      *)
(* either splits a job's range at its middle into two jobs that run in any *)
(* order and on any worker, or folds the range from left to right;         *)
(* filter_map keeps the values of the words that pass, and collect joins   *)
(* the vectors of the two halves of a split, the left one first.  Which    *)
(* jobs split and how their steps interleave is left open, which covers    *)
(* every number of workers and every order of completion.                  *)

\* the values of the words handed to the filter: "a", "b", "ab" and ""
FilterValues == {<<97>>, <<98>>, <<97, 98>>, << >>}

\* the lists of letters handed to the filter: "a", "abb" and ""
FilterLists == {<<97>>, <<97, 98, 98>>, << >>}

\* a job over the words lo .. hi-1: `at` is the next word its fold looks at,
\* `out` the values its fold has kept or its reduce has joined
Job(lo, hi, st, at, out) ==
    [lo |-> lo, hi |-> hi, st |-> st, at |-> at, out |-> out]

\* the job that covers the whole vector
RootJob(words) == Job(1, Len(words) + 1, "ready", 1, << >>)

\* the middle at which the bridge splits a range
SplitPoint(j) == j.lo + ((j.hi - j.lo) \div 2)

\* a faulty variant of ReduceLists: the half that completed is put first
ReduceListsRightFirst(left, right) == right \o left

\* the reducer of collect: the left list, then the right list
ReduceLists(left, right) == left \o right

\* the closure of filter_map on one word, and the folder's push
FilterMapItem(out, word, list) ==
    IF can_be_constructed(word.letters, list)
    THEN Append(out, word.value) ELSE out

FilterStart(words, list) ==
    /\ fl_words' = words
    /\ fl_list' = list
    /\ fl_jobs' = {RootJob(words)}
    /\ fl_pc' = "run"
    /\ fl_result' = << >>

FilterInit ==
    /\ fl_words \in {[i \in 1..Len(vs) |-> MakeWord(vs[i])] :
                        vs \in StringsUpTo(FilterValues, MaxWords)}
    /\ fl_list \in {get_letters_count(l) : l \in FilterLists}
    /\ fl_jobs = {RootJob(fl_words)}
    /\ fl_pc = "run"
    /\ fl_result = << >>
    /\ CountIdle /\ NoiseIdle /\ PredIdle /\ ReadIdle /\ RandIdle /\ MainIdle

\* the bridge splits a job that has not started at the middle of its range
FilterSplit ==
    /\ fl_pc = "run"
    /\ \E j \in fl_jobs :
          /\ j.st = "ready"
          /\ j.hi - j.lo >= 2
          /\ fl_jobs' = (fl_jobs \ {j}) \cup
                {Job(j.lo, j.hi, "split", j.lo, << >>),
                 Job(j.lo, SplitPoint(j), "ready", j.lo, << >>),
                 Job(SplitPoint(j), j.hi, "ready", SplitPoint(j), << >>)}
    /\ UNCHANGED <<fl_words, fl_list, fl_pc, fl_result, notFilter>>

\* the fold of a job looks at its next word
FilterFold ==
    /\ fl_pc = "run"
    /\ \E j \in fl_jobs :
          /\ j.st \in {"ready", "fold"}
          /\ j.at < j.hi
          /\ fl_jobs' = (fl_jobs \ {j}) \cup
                {Job(j.lo, j.hi, "fold", j.at + 1,
                     FilterMapItem(j.out, fl_words[j.at], fl_list))}
    /\ UNCHANGED <<fl_words, fl_list, fl_pc, fl_result, notFilter>>

\* the fold of a job has seen its whole range
FilterComplete ==
    /\ fl_pc = "run"
    /\ \E j \in fl_jobs :
          /\ j.st \in {"ready", "fold"}
          /\ j.at = j.hi
          /\ fl_jobs' = (fl_jobs \ {j}) \cup
                {Job(j.lo, j.hi, "done", j.at, j.out)}
    /\ UNCHANGED <<fl_words, fl_list, fl_pc, fl_result, notFilter>>

\* both halves of a split job are done: their lists are joined
FilterReduce ==
    /\ fl_pc = "run"
    /\ \E j \in fl_jobs, l \in fl_jobs, r \in fl_jobs :
          /\ j.st = "split"
          /\ l.st = "done" /\ l.lo = j.lo /\ l.hi = SplitPoint(j)
          /\ r.st = "done" /\ r.lo = SplitPoint(j) /\ r.hi = j.hi
          /\ fl_jobs' = (fl_jobs \ {j}) \cup
                {Job(j.lo, j.hi, "done", j.hi, ReduceLists(l.out, r.out))}
    /\ UNCHANGED <<fl_words, fl_list, fl_pc, fl_result, notFilter>>

\* the job of the whole vector is done: collect returns its list
FilterCollect ==
    /\ fl_pc = "run"
    /\ \E j \in fl_jobs :
          /\ j.st = "done"
          /\ j.lo = 1 /\ j.hi = Len(fl_words) + 1
          /\ fl_result' = j.out
    /\ fl_pc' = "done"
    /\ UNCHANGED <<fl_words, fl_list, fl_jobs, notFilter>>

FilterNext ==
    \/ FilterSplit
    \/ FilterFold
    \/ FilterComplete
    \/ FilterReduce
    \/ FilterCollect

SpecFilter == FilterInit /\ [][FilterNext]_vars

\* the sequential filter: the words are looked at from left to right and the
\* values of those that pass are kept in that order
RECURSIVE SequentialFilter(_, _)
SequentialFilter(words, list) ==
    IF words = << >> THEN << >>
    ELSE (IF can_be_constructed(Head(words).letters, list)
          THEN <<Head(words).value>> ELSE << >>)
         \o SequentialFilter(Tail(words), list)

\* C2: whatever the jobs and their order, the vector returned is the one the
\* sequential left-to-right filter returns: the values of the words that
\* pass, in input order; an empty input gives an empty output.
FilterIsStable ==
    fl_pc = "done" =>
        /\ fl_result = SequentialFilter(fl_words, fl_list)
        /\ fl_words = << >> => fl_result = << >>

\* a run that split twice (the root job and one half, which leaves five
\* jobs), kept two different values and dropped a word
FilterWitness ==
    /\ fl_pc = "done"
    /\ Cardinality(fl_jobs) = 5
    /\ Len(fl_result) >= 2
    /\ Len(fl_result) < Len(fl_words)
    /\ fl_result[1] # fl_result[2]

---------------------------------------------------------------------------
(* SpecRand: generate_random_string. The string collected is not stored:   *)
(* rs_taken is the number of characters taken from the iterator and        *)
(* rs_lower the number of those that are lowercase letters a..z.           *)

\* the values of the argument: None, and Some(n) for every u8 n
RandArgs ==
    {[some |-> FALSE, n |-> 0]} \cup
    {[some |-> TRUE, n |-> n] : n \in 0..(U8Modulus - 1)}

\* what rng.gen_range(1..=200) can return
GenRangeLength == 1..200

\* a faulty variant of GenRangeLetter: the range starts at 'A'
GenRangeLetterFromUpperA == 65..122

\* what rng.gen_range('a'..='z') can return
GenRangeLetter == 97..122

RandInit ==
    /\ rs_arg \in RandArgs
    /\ rs_length = 0
    /\ rs_taken = 0
    /\ rs_lower = 0
    /\ rs_pc = "length"
    /\ CountIdle /\ NoiseIdle /\ PredIdle /\ ReadIdle /\ FilterIdle /\ MainIdle

\* length.unwrap_or_else on Some(n)
RandLengthGiven ==
    /\ rs_pc = "length"
    /\ rs_arg.some
    /\ rs_length' = rs_arg.n
    /\ rs_pc' = "take"
    /\ UNCHANGED <<rs_arg, rs_taken, rs_lower, notRand>>

\* length.unwrap_or_else on None: the length is drawn
RandLengthDrawn ==
    /\ rs_pc = "length"
    /\ ~rs_arg.some
    /\ \E n \in GenRangeLength : rs_length' = n
    /\ rs_pc' = "take"
    /\ UNCHANGED <<rs_arg, rs_taken, rs_lower, notRand>>

\* take() lets one more character through: a letter is drawn
RandTake ==
    /\ rs_pc = "take"
    /\ rs_taken < rs_length
    /\ rs_taken' = rs_taken + 1
    /\ \E c \in GenRangeLetter :
          rs_lower' = rs_lower + (IF IsAsciiLowercase(c) THEN 1 ELSE 0)
    /\ UNCHANGED <<rs_arg, rs_length, rs_pc, notRand>>

\* take() is exhausted: the string is collected
RandCollect ==
    /\ rs_pc = "take"
    /\ rs_taken = rs_length
    /\ rs_pc' = "done"
    /\ UNCHANGED <<rs_arg, rs_length, rs_taken, rs_lower, notRand>>

RandNext ==
    \/ RandLengthGiven
    \/ RandLengthDrawn
    \/ RandTake
    \/ RandCollect

SpecRand == RandInit /\ [][RandNext]_vars

\* C9: asked for n characters, n in 1..200, the string has exactly n
\* characters and all are lowercase letters a..z; asked for no length, it
\* has between 1 and 200 characters and all are lowercase letters a..z.
RandomStringIsLowercase ==
    rs_pc = "done" =>
        /\ (rs_arg.some /\ rs_arg.n \in 1..200) =>
              (rs_taken = rs_arg.n /\ rs_lower = rs_taken)
        /\ ~rs_arg.some =>
              (rs_taken \in 1..200 /\ rs_lower = rs_taken)

\* the longest string of a call without a length
RandomStringWitness ==
    /\ rs_pc = "done"
    /\ ~rs_arg.some
    /\ rs_taken = 200
    /\ rs_lower = 200

\* the longest string of a call with a length of the claim
RandomStringGivenWitness ==
    /\ rs_pc = "done"
    /\ rs_arg.some
    /\ rs_arg.n = 200
    /\ rs_taken = 200

---------------------------------------------------------------------------
(* SpecMain: main of the find_words binary. It runs read_words_from_file   *)
(* (the steps of SpecRead), generate_random_string(Some(20)), the two      *)
(* println! of the list, get_constructable_words (the steps of SpecFilter) *)
(* and one println! per word returned.                                     *)

\* the length main asks generate_random_string for
PoolLength == 20

\* some of the strings generate_random_string(Some(n)) can return:
\* "aaa...", "aba...", "bab..." and "zzz..."
RandomStrings(n) ==
    {[i \in 1..n |-> 97],
     [i \in 1..n |-> IF i % 2 = 1 THEN 97 ELSE 98],
     [i \in 1..n |-> IF i % 2 = 1 THEN 98 ELSE 97],
     [i \in 1..n |-> 122]}

\* one line of the standard output
Line(kind, text) == [kind |-> kind, text |-> text]

MainInit ==
    /\ mn_pc = "read"
    /\ mn_list = << >>
    /\ mn_stdout = << >>
    /\ mn_exit = "running"
    /\ ReadStart
    /\ CountIdle /\ NoiseIdle /\ PredIdle /\ FilterIdle /\ RandIdle

\* a faulty variant of MainReadFailed: the error is swallowed and the run goes on
\* with no words
MainReadFailedSwallowed ==
    /\ mn_pc = "read"
    /\ rd_pc = "done"
    /\ rd_result.kind = "Err"
    /\ mn_pc' = "generate"
    /\ UNCHANGED <<mn_list, mn_stdout, mn_exit, readVars, filterVars, notMain>>

\* `read_words_from_file("words.txt")?` on an Err: main returns the error
\* and the process exits with a failure status
MainReadFailed ==
    /\ mn_pc = "read"
    /\ rd_pc = "done"
    /\ rd_result.kind = "Err"
    /\ mn_exit' = "failure"
    /\ mn_pc' = "exit"
    /\ UNCHANGED <<mn_list, mn_stdout, readVars, filterVars, notMain>>

\* `read_words_from_file("words.txt")?` on an Ok
MainReadOk ==
    /\ mn_pc = "read"
    /\ rd_pc = "done"
    /\ rd_result.kind = "Ok"
    /\ mn_pc' = "generate"
    /\ UNCHANGED <<mn_list, mn_stdout, mn_exit, readVars, filterVars, notMain>>

\* let list = generate_random_string(Some(20))
MainGenerate ==
    /\ mn_pc = "generate"
    /\ \E l \in RandomStrings(PoolLength) : mn_list' = l
    /\ mn_pc' = "pool"
    /\ UNCHANGED <<mn_stdout, mn_exit, readVars, filterVars, notMain>>

\* println!("List of letters: {}", list)
MainPrintPool ==
    /\ mn_pc = "pool"
    /\ mn_stdout' = Append(mn_stdout, Line("letters", mn_list))
    /\ mn_pc' = "header"
    /\ UNCHANGED <<mn_list, mn_exit, readVars, filterVars, notMain>>

\* println!("Words that can be constructed")
MainPrintHeader ==
    /\ mn_pc = "header"
    /\ mn_stdout' = Append(mn_stdout, Line("header", << >>))
    /\ mn_pc' = "call"
    /\ UNCHANGED <<mn_list, mn_exit, readVars, filterVars, notMain>>

\* get_constructable_words(words, &get_letters_count(&list)) is called
MainCallFilter ==
    /\ mn_pc = "call"
    /\ FilterStart(rd_result.words, get_letters_count(mn_list))
    /\ mn_pc' = "filter"
    /\ UNCHANGED <<mn_list, mn_stdout, mn_exit, readVars, notMain>>

\* get_constructable_words has returned: the loop starts
MainFilterReturned ==
    /\ mn_pc = "filter"
    /\ fl_pc = "done"
    /\ mn_pc' = "words"
    /\ UNCHANGED <<mn_list, mn_stdout, mn_exit, readVars, filterVars, notMain>>

\* one iteration of the loop: println!("{}", word)
MainPrintWord ==
    /\ mn_pc = "words"
    /\ Len(mn_stdout) - 2 < Len(fl_result)
    /\ mn_stdout' = Append(mn_stdout, Line("word", fl_result[Len(mn_stdout) - 1]))
    /\ UNCHANGED <<mn_pc, mn_list, mn_exit, readVars, filterVars, notMain>>

\* the loop is over: Ok(()) is returned and the process exits with success
MainReturn ==
    /\ mn_pc = "words"
    /\ Len(mn_stdout) - 2 = Len(fl_result)
    /\ mn_exit' = "success"
    /\ mn_pc' = "exit"
    /\ UNCHANGED <<mn_list, mn_stdout, readVars, filterVars, notMain>>

MainNext ==
    \/ ReadNext
    \/ MainReadFailed
    \/ MainReadOk
    \/ MainGenerate
    \/ MainPrintPool
    \/ MainPrintHeader
    \/ MainCallFilter
    \/ FilterNext
    \/ MainFilterReturned
    \/ MainPrintWord
    \/ MainReturn

SpecMain == MainInit /\ [][MainNext]_vars

\* the lines of the words of a vector of values
WordLines(values) == [i \in 1..Len(values) |-> Line("word", values[i])]

\* C8: nothing is printed before the word list is read to its end; when the
\* read fails nothing is ever printed and the process exits with a failure
\* status; the line of the list of letters is printed before any word, and a
\* successful run prints each constructible word on a line of its own.
MainPrintsAfterReading ==
    /\ mn_stdout # << >> => (rd_pc = "done" /\ rd_result.kind = "Ok")
    /\ rd_result.kind = "Err" =>
          /\ mn_stdout = << >>
          /\ mn_pc \in {"read", "exit"}
          /\ mn_pc = "exit" => mn_exit = "failure"
    /\ mn_exit = "failure" => rd_result.kind = "Err"
    /\ \A i \in 1..Len(mn_stdout) :
          mn_stdout[i].kind = "word" =>
              (i > 1 /\ mn_stdout[1] = Line("letters", mn_list))
    /\ mn_exit = "success" =>
          mn_stdout = <<Line("letters", mn_list), Line("header", << >>)>>
                      \o WordLines(SequentialFilter(rd_result.words,
                                                    get_letters_count(mn_list)))

\* a run that failed on a line after reading another, and exited
MainFailureWitness ==
    /\ mn_pc = "exit"
    /\ mn_exit = "failure"
    /\ Len(rd_words) >= 1

\* a successful run that printed two words and dropped one
MainSuccessWitness ==
    /\ mn_pc = "exit"
    /\ mn_exit = "success"
    /\ Len(mn_stdout) = 4
    /\ Len(rd_result.words) = 3

=============================================================================
